---- MODULE Spec2Model ----
(***************************************************************************)
(* The LRU cache of make_tests_great/README.md: lruCache.Set and           *)
(* lruCache.Get over an index (items), a recency list (queue) and one      *)
(* mutex.                                                                  *)
(*                                                                         *)
(* The list is modelled the way container/list behaves: elements have an   *)
(* identity (a pointer), the index maps a key to an element, and the       *)
(* element carries the cacheItem{key, value}.                              *)
(***************************************************************************)
EXTENDS Integers, Sequences, FiniteSets, TLC

\* ------------------------------------------------------------------ bounds
NumKeys == 3
NumValues == 2
MaxCapacity == 2
MaxClock == 4
MaxWideCapacity == 3
NumProcs == 2
NumConcKeys == 2

Keys == 1..NumKeys
Values == 1..NumValues
Capacities == 1..MaxCapacity
Procs == 1..NumProcs
\* The keys the concurrent goroutines use.
ConcKeys == 1..NumConcKeys

\* The zero value of interface{} (var value interface{}).
Nil == 0
\* The unlocked state of cache.mutex.
Free == 0

VARIABLES
    items,      \* cache.items: Key -> element
    queue,      \* cache.queue: elements, front first
    elems,      \* the heap: element -> cacheItem{key, value} (Element.Value)
    capacity,   \* the capacity the cache was created with
    mutex,      \* cache.mutex: Free or the holder
    last,       \* history: the last completed call, its result, the state before it
    touched,    \* history: keys in the order of their last touch, oldest first
    pc,         \* per goroutine: the statement of Set or Get it is at
    frame,      \* per goroutine: the call's key, value, item, exists, deferred
    lin,        \* history: the cache had every call run alone when it took the lock
    expect,     \* history: per goroutine, what its call returns if run alone
    race,       \* history: the key all goroutines Set at once, and their lock order
    ref,        \* the last-touch-time reference cache run beside the list cache
    duel        \* history: a Get and a Set of a new key run at once, and Get's result

seqVars == <<last, touched>>
concVars == <<pc, frame, lin, expect>>
raceVars == <<race>>
refVars == <<ref>>
duelVars == <<duel>>
vars == <<items, queue, elems, capacity, mutex, last, touched, pc, frame, lin, expect,
          race, ref, duel>>

\* The cache object as one value.
cache == [items |-> items, queue |-> queue, elems |-> elems, capacity |-> capacity]

\* ------------------------------------------------------------ map helpers
Range(s) == {s[i] : i \in 1..Len(s)}

Without(s, x) == SelectSeq(s, LAMBDA y : y # x)

\* m[k] = v of a Go map.
MapPut(m, k, v) == [x \in DOMAIN m \cup {k} |-> IF x = k THEN v ELSE m[x]]

\* delete(m, k) of a Go map.
MapDelete(m, k) == [x \in DOMAIN m \ {k} |-> m[x]]

\* --------------------------------------------------------------- the list
\* A fresh element: an address no live element has.
NewElement(q) == CHOOSE e \in 1..(Len(q) + 1) : e \notin Range(q)

Front(q) == IF Len(q) = 0 THEN Nil ELSE q[1]

Back(q) == IF Len(q) = 0 THEN Nil ELSE q[Len(q)]

\* queue.PushFront(v): a new element carrying v, linked before the front.
PushFront(c, v) ==
    LET e == NewElement(c.queue) IN
    [c EXCEPT !.queue = <<e>> \o c.queue,
              !.elems = MapPut(c.elems, e, v)]

\* queue.MoveToFront(e): no-op unless e is an element of the list.
MoveToFront(q, e) ==
    IF e \in Range(q) THEN <<e>> \o Without(q, e) ELSE q

\* queue.Remove(e)
Remove(q, e) == Without(q, e)

\* deleteUnusedIfOverflow(cache): when the list is longer than the capacity,
\* the back element leaves the list and its key leaves the index.
deleteUnusedIfOverflow(c) ==
    IF Len(c.queue) > c.capacity
    THEN LET unused == Back(c.queue) IN
         [c EXCEPT !.queue = Remove(c.queue, unused),
                   !.items = MapDelete(c.items, c.elems[unused].key),
                   !.elems = MapDelete(c.elems, unused)]
    ELSE c

\* ------------------------------------------------------------ Set and Get
\* Set without the call of deleteUnusedIfOverflow.
SetNoEvict(c, key, value) ==
    LET exists == key \in DOMAIN c.items IN
    IF ~exists
    THEN LET c1 == PushFront(c, [key |-> key, value |-> value])
             c2 == [c1 EXCEPT !.items = MapPut(c1.items, key, Front(c1.queue))]
         IN [cache |-> c2, exists |-> FALSE]
    ELSE LET item == c.items[key]
             updatingCacheItem == [c.elems[item] EXCEPT !.value = value]
             c1 == [c EXCEPT !.elems[item] = updatingCacheItem]
         IN [cache |-> [c1 EXCEPT !.queue = MoveToFront(c1.queue, item)],
             exists |-> TRUE]

\* Set that updates a present key without moving it to the front.
SetNoMove(c, key, value) ==
    LET exists == key \in DOMAIN c.items IN
    IF ~exists
    THEN LET c1 == PushFront(c, [key |-> key, value |-> value])
             c2 == [c1 EXCEPT !.items = MapPut(c1.items, key, Front(c1.queue))]
         IN [cache |-> deleteUnusedIfOverflow(c2), exists |-> FALSE]
    ELSE LET item == c.items[key]
             updatingCacheItem == [c.elems[item] EXCEPT !.value = value]
             c1 == [c EXCEPT !.elems[item] = updatingCacheItem]
         IN [cache |-> c1, exists |-> TRUE]

\* Set whose updated cacheItem copy is not stored back into the element.
SetNoWriteBack(c, key, value) ==
    LET exists == key \in DOMAIN c.items IN
    IF ~exists
    THEN LET c1 == PushFront(c, [key |-> key, value |-> value])
             c2 == [c1 EXCEPT !.items = MapPut(c1.items, key, Front(c1.queue))]
         IN [cache |-> deleteUnusedIfOverflow(c2), exists |-> FALSE]
    ELSE LET item == c.items[key]
         IN [cache |-> [c EXCEPT !.queue = MoveToFront(c.queue, item)],
             exists |-> TRUE]

\* queue.PushBack(v): a new element carrying v, linked after the back.
PushBack(c, v) ==
    LET e == NewElement(c.queue) IN
    [c EXCEPT !.queue = c.queue \o <<e>>,
              !.elems = MapPut(c.elems, e, v)]

\* Set that links a new element at the back of the list.
SetPushBack(c, key, value) ==
    LET exists == key \in DOMAIN c.items IN
    IF ~exists
    THEN LET c1 == PushBack(c, [key |-> key, value |-> value])
             c2 == [c1 EXCEPT !.items = MapPut(c1.items, key, Back(c1.queue))]
         IN [cache |-> deleteUnusedIfOverflow(c2), exists |-> FALSE]
    ELSE LET item == c.items[key]
             updatingCacheItem == [c.elems[item] EXCEPT !.value = value]
             c1 == [c EXCEPT !.elems[item] = updatingCacheItem]
         IN [cache |-> [c1 EXCEPT !.queue = MoveToFront(c1.queue, item)],
             exists |-> TRUE]

\* Set that does not enter a new key into the index.
SetNoIndex(c, key, value) ==
    LET exists == key \in DOMAIN c.items IN
    IF ~exists
    THEN LET c1 == PushFront(c, [key |-> key, value |-> value])
         IN [cache |-> deleteUnusedIfOverflow(c1), exists |-> FALSE]
    ELSE LET item == c.items[key]
             updatingCacheItem == [c.elems[item] EXCEPT !.value = value]
             c1 == [c EXCEPT !.elems[item] = updatingCacheItem]
         IN [cache |-> [c1 EXCEPT !.queue = MoveToFront(c1.queue, item)],
             exists |-> TRUE]

\* Set that indexes the front element before pushing the new one.
SetIndexBeforePush(c, key, value) ==
    LET exists == key \in DOMAIN c.items IN
    IF ~exists
    THEN LET c1 == [c EXCEPT !.items = MapPut(c.items, key, Front(c.queue))]
             c2 == PushFront(c1, [key |-> key, value |-> value])
         IN [cache |-> deleteUnusedIfOverflow(c2), exists |-> FALSE]
    ELSE LET item == c.items[key]
             updatingCacheItem == [c.elems[item] EXCEPT !.value = value]
             c1 == [c EXCEPT !.elems[item] = updatingCacheItem]
         IN [cache |-> [c1 EXCEPT !.queue = MoveToFront(c1.queue, item)],
             exists |-> TRUE]

\* Set that pushes a new element whether or not the key is present.
SetAlwaysPush(c, key, value) ==
    LET exists == key \in DOMAIN c.items
        c1 == PushFront(c, [key |-> key, value |-> value])
        c2 == [c1 EXCEPT !.items = MapPut(c1.items, key, Front(c1.queue))]
    IN [cache |-> deleteUnusedIfOverflow(c2), exists |-> exists]

\* Set that calls deleteUnusedIfOverflow before it pushes the new element.
SetEvictBeforePush(c, key, value) ==
    LET exists == key \in DOMAIN c.items IN
    IF ~exists
    THEN LET c1 == deleteUnusedIfOverflow(c)
             c2 == PushFront(c1, [key |-> key, value |-> value])
         IN [cache |-> [c2 EXCEPT !.items = MapPut(c2.items, key, Front(c2.queue))],
             exists |-> FALSE]
    ELSE LET item == c.items[key]
             updatingCacheItem == [c.elems[item] EXCEPT !.value = value]
             c1 == [c EXCEPT !.elems[item] = updatingCacheItem]
         IN [cache |-> [c1 EXCEPT !.queue = MoveToFront(c1.queue, item)],
             exists |-> TRUE]

\* Set that makes room for a new key by raising the capacity.
SetGrows(c, key, value) ==
    LET exists == key \in DOMAIN c.items IN
    IF ~exists
    THEN LET c1 == PushFront(c, [key |-> key, value |-> value])
             c2 == [c1 EXCEPT !.items = MapPut(c1.items, key, Front(c1.queue))]
         IN [cache |-> IF Len(c2.queue) > c2.capacity
                       THEN [c2 EXCEPT !.capacity = Len(c2.queue)]
                       ELSE c2,
             exists |-> FALSE]
    ELSE LET item == c.items[key]
             updatingCacheItem == [c.elems[item] EXCEPT !.value = value]
             c1 == [c EXCEPT !.elems[item] = updatingCacheItem]
         IN [cache |-> [c1 EXCEPT !.queue = MoveToFront(c1.queue, item)],
             exists |-> TRUE]

\* Set that, on a present key, moves the back element to the front.
SetMovesBack(c, key, value) ==
    LET exists == key \in DOMAIN c.items IN
    IF ~exists
    THEN LET c1 == PushFront(c, [key |-> key, value |-> value])
             c2 == [c1 EXCEPT !.items = MapPut(c1.items, key, Front(c1.queue))]
         IN [cache |-> deleteUnusedIfOverflow(c2), exists |-> FALSE]
    ELSE LET item == c.items[key]
             updatingCacheItem == [c.elems[item] EXCEPT !.value = value]
             c1 == [c EXCEPT !.elems[item] = updatingCacheItem]
         IN [cache |-> [c1 EXCEPT !.queue = MoveToFront(c1.queue, Back(c1.queue))],
             exists |-> TRUE]

\* lruCache.Set between Lock and Unlock: the new cache and the returned bool.
Set(c, key, value) ==
    LET exists == key \in DOMAIN c.items IN
    IF ~exists
    THEN LET c1 == PushFront(c, [key |-> key, value |-> value])
             c2 == [c1 EXCEPT !.items = MapPut(c1.items, key, Front(c1.queue))]
         IN [cache |-> deleteUnusedIfOverflow(c2), exists |-> FALSE]
    ELSE LET item == c.items[key]
             updatingCacheItem == [c.elems[item] EXCEPT !.value = value]
             c1 == [c EXCEPT !.elems[item] = updatingCacheItem]
         IN [cache |-> [c1 EXCEPT !.queue = MoveToFront(c1.queue, item)],
             exists |-> TRUE]

\* Get that reads a present key without moving it to the front.
GetNoMove(c, key) ==
    LET exists == key \in DOMAIN c.items IN
    IF exists
    THEN [cache |-> c, value |-> c.elems[c.items[key]].value, exists |-> TRUE]
    ELSE [cache |-> c, value |-> Nil, exists |-> FALSE]

\* Get that, on a miss, moves the back element to the front.
GetMissMovesBack(c, key) ==
    LET exists == key \in DOMAIN c.items IN
    IF exists
    THEN LET item == c.items[key] IN
         [cache |-> [c EXCEPT !.queue = MoveToFront(c.queue, item)],
          value |-> c.elems[item].value,
          exists |-> TRUE]
    ELSE [cache |-> [c EXCEPT !.queue = MoveToFront(c.queue, Back(c.queue))],
          value |-> Nil, exists |-> FALSE]

\* Get that calls queue.Remove where it should call queue.MoveToFront.
GetRemoves(c, key) ==
    LET exists == key \in DOMAIN c.items IN
    IF exists
    THEN LET item == c.items[key] IN
         [cache |-> [c EXCEPT !.queue = Remove(c.queue, item)],
          value |-> c.elems[item].value,
          exists |-> TRUE]
    ELSE [cache |-> c, value |-> Nil, exists |-> FALSE]

\* lruCache.Get between Lock and the deferred Unlock.
Get(c, key) ==
    LET exists == key \in DOMAIN c.items IN
    IF exists
    THEN LET item == c.items[key] IN
         [cache |-> [c EXCEPT !.queue = MoveToFront(c.queue, item)],
          value |-> c.elems[item].value,
          exists |-> TRUE]
    ELSE [cache |-> c, value |-> Nil, exists |-> FALSE]

\* ---------------------------------------------------------------- history
\* k becomes the most recently touched key.
Touch(t, k) == Without(t, k) \o <<k>>

\* e.Value.(cacheItem) does not panic: e is not nil and its Value is a cacheItem.
IsCacheItem(c, e) ==
    /\ e # Nil
    /\ e \in DOMAIN c.elems => DOMAIN c.elems[e] = {"key", "value"}

\* Get(key) panics: the element the index gives is nil or holds no cacheItem.
GetAborts(c, key) ==
    key \in DOMAIN c.items /\ ~IsCacheItem(c, c.items[key])

\* Set(key, value) panics: on a present key as Get does; on a new key when the
\* list overflows and its back element is nil or holds no cacheItem.
SetAborts(c, key, value) ==
    IF key \in DOMAIN c.items
    THEN ~IsCacheItem(c, c.items[key])
    ELSE LET c1 == PushFront(c, [key |-> key, value |-> value])
         IN Len(c1.queue) > c1.capacity /\ ~IsCacheItem(c1, Back(c1.queue))

\* I1: the index holds exactly the keys of the list, and the element it gives
\* for a key is an element of the list that carries that key.
I1(c) ==
    /\ \A k \in DOMAIN c.items :
        /\ c.items[k] \in Range(c.queue)
        /\ c.items[k] \in DOMAIN c.elems
        /\ c.elems[c.items[k]].key = k
    /\ \A i \in 1..Len(c.queue) :
        /\ c.queue[i] \in DOMAIN c.elems
        /\ c.elems[c.queue[i]].key \in DOMAIN c.items

\* I2: the live count does not exceed the capacity.
I2(c) ==
    /\ Cardinality(DOMAIN c.items) <= c.capacity
    /\ Len(c.queue) <= c.capacity

\* I3: no key is carried by two elements of the list.
I3(c) ==
    \A i, j \in 1..Len(c.queue) :
        i # j => c.elems[c.queue[i]].key # c.elems[c.queue[j]].key

\* The key the back element of the list carries.
BackKey(c) == c.elems[Back(c.queue)].key

\* The keys the elements of the list carry, front first.
QueueKeys(c) == [i \in 1..Len(c.queue) |-> c.elems[c.queue[i]].key]

\* The keys of the index.
Present(c) == DOMAIN c.items

\* The value the cache holds for a present key.
StoredValue(c, k) == c.elems[c.items[k]].value

\* The key the front element of the list carries.
FrontKey(c) == c.elems[Front(c.queue)].key

\* The present keys of c in the order of their last touch, oldest first.
ByLastTouch(c, t) == SelectSeq(t, LAMBDA k : k \in Present(c))

\* The least recently touched present key.
LeastRecent(c, t) == ByLastTouch(c, t)[1]

\* The second least recently touched present key.
SecondLeastRecent(c, t) == ByLastTouch(c, t)[2]

\* The cache holds as many keys as its capacity.
Full(c) == Cardinality(Present(c)) = c.capacity

\* A key no caller has used yet.
NewKey(i) == NumKeys + i

\* c after n Sets of distinct new keys and no other call.
RECURSIVE AfterNewKeys(_, _, _)
AfterNewKeys(c, n, value) ==
    IF n = 0 THEN c
    ELSE Set(AfterNewKeys(c, n - 1, value), NewKey(n), value).cache

\* A goroutine that is in no call.
NoFrame == [key |-> Nil, value |-> Nil, item |-> Nil, exists |-> FALSE,
            deferred |-> FALSE]

NoResult == [value |-> Nil, exists |-> FALSE]

\* The reference cache before any call: no entries, logical time 0.
NoRef == [entries |-> <<>>, clock |-> 0, value |-> Nil, exists |-> FALSE]

\* No Get has been set against a Set of a new key.
NoDuel == [getter |-> Nil, setter |-> Nil, key |-> Nil, old |-> Nil,
           order |-> <<>>, returned |-> FALSE, found |-> FALSE, value |-> Nil]

\* No race of writers has begun.
NoRace == [key |-> Nil, order |-> <<>>, fresh |-> FALSE, ret |-> <<>>]

\* ------------------------------------------------------------------- Init
\* An empty cache of some capacity >= 1, its mutex unlocked.
Init ==
    /\ capacity \in Capacities
    /\ items = <<>>
    /\ queue = <<>>
    /\ elems = <<>>
    /\ mutex = Free
    /\ touched = <<>>
    /\ last = [op |-> "none", key |-> Nil, value |-> Nil, exists |-> FALSE,
               ret |-> Nil,
               pre |-> [items |-> <<>>, queue |-> <<>>, elems |-> <<>>,
                        capacity |-> capacity],
               preTouched |-> <<>>]
    /\ pc = [p \in Procs |-> "idle"]
    /\ frame = [p \in Procs |-> NoFrame]
    /\ lin = [items |-> <<>>, queue |-> <<>>, elems |-> <<>>, capacity |-> capacity]
    /\ expect = [p \in Procs |-> NoResult]
    /\ race = NoRace
    /\ ref = NoRef
    /\ duel = NoDuel

\* ----------------------------------------------------- calls, one at a time
\* cache.Set(key, value), from Lock to return.
CallSet(key, value) ==
    /\ mutex = Free
    /\ LET r == Set(cache, key, value) IN
        /\ items' = r.cache.items
        /\ queue' = r.cache.queue
        /\ elems' = r.cache.elems
        /\ last' = [op |-> "Set", key |-> key, value |-> value,
                    exists |-> r.exists, ret |-> Nil,
                    pre |-> cache, preTouched |-> touched]
    /\ touched' = Touch(touched, key)
    /\ UNCHANGED <<capacity, mutex, concVars, raceVars, refVars, duelVars>>

\* cache.Get(key), from Lock to return.
CallGet(key) ==
    /\ mutex = Free
    /\ LET r == Get(cache, key) IN
        /\ items' = r.cache.items
        /\ queue' = r.cache.queue
        /\ elems' = r.cache.elems
        /\ last' = [op |-> "Get", key |-> key, value |-> Nil,
                    exists |-> r.exists, ret |-> r.value,
                    pre |-> cache, preTouched |-> touched]
    /\ touched' = IF key \in DOMAIN items THEN Touch(touched, key) ELSE touched
    /\ UNCHANGED <<capacity, mutex, concVars, raceVars, refVars, duelVars>>

Next ==
    \/ \E key \in Keys, value \in Values : CallSet(key, value)
    \/ \E key \in Keys : CallGet(key)

Spec == Init /\ [][Next]_vars

\* ------------------------------------------- the last-touch-time reference
\* The entry of e with the oldest last touch.
Oldest(e) == CHOOSE k \in DOMAIN e : \A j \in DOMAIN e : e[k].time <= e[j].time

\* Set on the reference: the key gets the value and the next logical time;
\* with more than C entries the one with the oldest time is evicted.
RefSet(r, C, key, value) ==
    LET t == r.clock + 1
        e1 == MapPut(r.entries, key, [value |-> value, time |-> t])
        e2 == IF Cardinality(DOMAIN e1) > C THEN MapDelete(e1, Oldest(e1)) ELSE e1
    IN [entries |-> e2, clock |-> t, value |-> Nil,
        exists |-> key \in DOMAIN r.entries]

\* Get on the reference: a hit returns the value and is a touch; a miss
\* returns (nil, false) and changes nothing.
RefGet(r, key) ==
    IF key \in DOMAIN r.entries
    THEN LET t == r.clock + 1 IN
         [entries |-> [r.entries EXCEPT ![key].time = t], clock |-> t,
          value |-> r.entries[key].value, exists |-> TRUE]
    ELSE [r EXCEPT !.value = Nil, !.exists = FALSE]

\* cache.Set(key, value) on the list cache and on the reference.
BothSet(key, value) ==
    /\ mutex = Free
    /\ ref.clock < MaxClock
    /\ LET r == Set(cache, key, value) IN
        /\ items' = r.cache.items
        /\ queue' = r.cache.queue
        /\ elems' = r.cache.elems
        /\ last' = [op |-> "Set", key |-> key, value |-> value,
                    exists |-> r.exists, ret |-> Nil,
                    pre |-> cache, preTouched |-> touched]
    /\ touched' = Touch(touched, key)
    /\ ref' = RefSet(ref, capacity, key, value)
    /\ UNCHANGED <<capacity, mutex, concVars, raceVars, duelVars>>

\* cache.Get(key) on the list cache and on the reference.
BothGet(key) ==
    /\ mutex = Free
    /\ ref.clock < MaxClock
    /\ LET r == Get(cache, key) IN
        /\ items' = r.cache.items
        /\ queue' = r.cache.queue
        /\ elems' = r.cache.elems
        /\ last' = [op |-> "Get", key |-> key, value |-> Nil,
                    exists |-> r.exists, ret |-> r.value,
                    pre |-> cache, preTouched |-> touched]
    /\ touched' = IF key \in DOMAIN items THEN Touch(touched, key) ELSE touched
    /\ ref' = RefGet(ref, key)
    /\ UNCHANGED <<capacity, mutex, concVars, raceVars, duelVars>>

RefNext ==
    \/ \E key \in Keys, value \in Values : BothSet(key, value)
    \/ \E key \in Keys : BothGet(key)

RefSpec == Init /\ [][RefNext]_vars

\* ------------------------------------------------------------ construction
\* The capacities a caller may ask for: below 1, zero included, and valid ones.
RequestedCapacities == (0 - MaxCapacity)..MaxCapacity

\* No cache: what the caller holds before New and after a failed New.
NoCache == [items |-> <<>>, queue |-> <<>>, elems |-> <<>>, capacity |-> 0]

\* New that rejects negative capacities only.
NewAcceptsZero(C) ==
    IF C < 0
    THEN [err |-> "InvalidCapacity", cache |-> NoCache]
    ELSE [err |-> "none",
          cache |-> [items |-> <<>>, queue |-> <<>>, elems |-> <<>>, capacity |-> C]]

\* New(capacity C): fails with InvalidCapacity if C < 1, else an empty cache.
New(C) ==
    IF C < 1
    THEN [err |-> "InvalidCapacity", cache |-> NoCache]
    ELSE [err |-> "none",
          cache |-> [items |-> <<>>, queue |-> <<>>, elems |-> <<>>, capacity |-> C]]

\* Before construction: the caller holds no cache.
NewInit ==
    /\ capacity = 0
    /\ items = <<>>
    /\ queue = <<>>
    /\ elems = <<>>
    /\ mutex = Free
    /\ touched = <<>>
    /\ last = [op |-> "none", key |-> Nil, value |-> Nil, exists |-> FALSE,
               ret |-> Nil, pre |-> NoCache, preTouched |-> <<>>]
    /\ pc = [p \in Procs |-> "idle"]
    /\ frame = [p \in Procs |-> NoFrame]
    /\ lin = NoCache
    /\ expect = [p \in Procs |-> NoResult]
    /\ race = NoRace
    /\ ref = NoRef
    /\ duel = NoDuel

\* The caller, holding no cache, calls New(C); last.key records C.
CallNew(C) ==
    /\ capacity = 0
    /\ LET r == New(C) IN
        /\ capacity' = r.cache.capacity
        /\ items' = r.cache.items
        /\ queue' = r.cache.queue
        /\ elems' = r.cache.elems
        /\ lin' = r.cache
        /\ last' = [op |-> IF r.err = "InvalidCapacity" THEN "NewFailed" ELSE "New",
                    key |-> C, value |-> Nil, exists |-> FALSE, ret |-> Nil,
                    pre |-> cache, preTouched |-> touched]
    /\ UNCHANGED <<mutex, touched, pc, frame, expect, raceVars, refVars, duelVars>>

\* Construction, then calls on the cache constructed.
NewNext ==
    \/ \E C \in RequestedCapacities : CallNew(C)
    \/ capacity # 0 /\ \E key \in Keys, value \in Values : CallSet(key, value)
    \/ capacity # 0 /\ \E key \in Keys : CallGet(key)

NewSpec == NewInit /\ [][NewNext]_vars

\* ------------------------------------------- goroutines, statement by statement
\* A goroutine calls cache.Set. The arguments take no part in any step before
\* Lock returns, so they are drawn there.
BeginSet(p) ==
    /\ pc[p] = "idle"
    /\ pc' = [pc EXCEPT ![p] = "SetLock"]
    /\ UNCHANGED <<items, queue, elems, capacity, mutex, frame, lin, expect, seqVars, raceVars, refVars, duelVars>>

\* Lock in Set that does not wait: the mutex is taken whoever holds it (a
\* Set with a value receiver locks its own copy of the mutex).
SetLockNoWait(p) ==
    /\ pc[p] = "SetLock"
    /\ mutex' = p
    /\ \E key \in ConcKeys, value \in Values :
        /\ frame' = [frame EXCEPT ![p] = [NoFrame EXCEPT !.key = key, !.value = value]]
        /\ lin' = Set(lin, key, value).cache
        /\ expect' = [expect EXCEPT ![p] =
                        [value |-> Nil, exists |-> Set(lin, key, value).exists]]
    /\ pc' = [pc EXCEPT ![p] = "SetLookup"]
    /\ UNCHANGED <<items, queue, elems, capacity, seqVars, raceVars, refVars, duelVars>>

\* cache.mutex.Lock() in Set: blocks until the mutex is unlocked.
SetLock(p) ==
    /\ pc[p] = "SetLock"
    /\ mutex = Free
    /\ mutex' = p
    /\ \E key \in ConcKeys, value \in Values :
        /\ frame' = [frame EXCEPT ![p] = [NoFrame EXCEPT !.key = key, !.value = value]]
        /\ lin' = Set(lin, key, value).cache
        /\ expect' = [expect EXCEPT ![p] =
                        [value |-> Nil, exists |-> Set(lin, key, value).exists]]
    /\ pc' = [pc EXCEPT ![p] = "SetLookup"]
    /\ UNCHANGED <<items, queue, elems, capacity, seqVars, raceVars, refVars, duelVars>>

\* item, exists := cache.items[key]; if !exists
SetLookup(p) ==
    /\ pc[p] = "SetLookup"
    /\ LET key == frame[p].key
           exists == key \in DOMAIN items
       IN /\ frame' = [frame EXCEPT ![p].exists = exists,
                                    ![p].item = IF exists THEN items[key] ELSE Nil]
          /\ pc' = [pc EXCEPT ![p] = IF exists THEN "SetUpdate" ELSE "SetPushFront"]
    /\ UNCHANGED <<items, queue, elems, capacity, mutex, lin, expect, seqVars, raceVars, refVars, duelVars>>

\* cache.queue.PushFront(cacheItem{key: key, value: value})
SetPushFront(p) ==
    /\ pc[p] = "SetPushFront"
    /\ LET c == PushFront(cache, [key |-> frame[p].key, value |-> frame[p].value])
       IN queue' = c.queue /\ elems' = c.elems
    /\ pc' = [pc EXCEPT ![p] = "SetIndex"]
    /\ UNCHANGED <<items, capacity, mutex, frame, lin, expect, seqVars, raceVars, refVars, duelVars>>

\* The indexing step of a Set whose Unlock precedes deleteUnusedIfOverflow.
SetIndexThenUnlock(p) ==
    /\ pc[p] = "SetIndex"
    /\ items' = MapPut(items, frame[p].key, Front(queue))
    /\ mutex' = Free
    /\ pc' = [pc EXCEPT ![p] = "SetEvict"]
    /\ UNCHANGED <<queue, elems, capacity, frame, lin, expect, seqVars, raceVars, refVars, duelVars>>

\* A Set that does not enter the new element into the index.
SetIndexSkipped(p) ==
    /\ pc[p] = "SetIndex"
    /\ pc' = [pc EXCEPT ![p] = "SetEvict"]
    /\ UNCHANGED <<items, queue, elems, capacity, mutex, frame, lin, expect, seqVars, raceVars, refVars, duelVars>>

\* cache.items[key] = cache.queue.Front()
SetIndex(p) ==
    /\ pc[p] = "SetIndex"
    /\ items' = MapPut(items, frame[p].key, Front(queue))
    /\ pc' = [pc EXCEPT ![p] = "SetEvict"]
    /\ UNCHANGED <<queue, elems, capacity, mutex, frame, lin, expect, seqVars, raceVars, refVars, duelVars>>

\* deleteUnusedIfOverflow(cache)
SetEvict(p) ==
    /\ pc[p] = "SetEvict"
    /\ LET c == deleteUnusedIfOverflow(cache)
       IN items' = c.items /\ queue' = c.queue /\ elems' = c.elems
    /\ pc' = [pc EXCEPT ![p] = "SetUnlock"]
    /\ UNCHANGED <<capacity, mutex, frame, lin, expect, seqVars, raceVars, refVars, duelVars>>

\* The update of Set that stores the bare value into the element where it
\* should store the changed cacheItem.
SetUpdateStoresValue(p) ==
    /\ pc[p] = "SetUpdate"
    /\ elems' = [elems EXCEPT ![frame[p].item] = [value |-> frame[p].value]]
    /\ pc' = [pc EXCEPT ![p] = "SetMoveToFront"]
    /\ UNCHANGED <<items, queue, capacity, mutex, frame, lin, expect, seqVars, raceVars, refVars, duelVars>>

\* The update of Set whose changed copy is not stored back into the element.
SetUpdateNoWriteBack(p) ==
    /\ pc[p] = "SetUpdate"
    /\ pc' = [pc EXCEPT ![p] = "SetMoveToFront"]
    /\ UNCHANGED <<items, queue, elems, capacity, mutex, frame, lin, expect, seqVars, raceVars, refVars, duelVars>>

\* updatingCacheItem := item.Value.(cacheItem); updatingCacheItem.value = value;
\* item.Value = updatingCacheItem
SetUpdate(p) ==
    /\ pc[p] = "SetUpdate"
    /\ LET item == frame[p].item
           updatingCacheItem == [elems[item] EXCEPT !.value = frame[p].value]
       IN elems' = [elems EXCEPT ![item] = updatingCacheItem]
    /\ pc' = [pc EXCEPT ![p] = "SetMoveToFront"]
    /\ UNCHANGED <<items, queue, capacity, mutex, frame, lin, expect, seqVars, raceVars, refVars, duelVars>>

\* cache.queue.MoveToFront(item) in Set
SetMoveToFront(p) ==
    /\ pc[p] = "SetMoveToFront"
    /\ queue' = MoveToFront(queue, frame[p].item)
    /\ pc' = [pc EXCEPT ![p] = "SetUnlock"]
    /\ UNCHANGED <<items, elems, capacity, mutex, frame, lin, expect, seqVars, raceVars, refVars, duelVars>>

\* The return of a Set that does not call Unlock.
SetReturnsLocked(p) ==
    /\ pc[p] = "SetUnlock"
    /\ pc' = [pc EXCEPT ![p] = "idle"]
    /\ frame' = [frame EXCEPT ![p] = NoFrame]
    /\ expect' = [expect EXCEPT ![p] = NoResult]
    /\ UNCHANGED <<items, queue, elems, capacity, mutex, lin, seqVars, raceVars, refVars, duelVars>>

\* cache.mutex.Unlock(); return exists
SetUnlock(p) ==
    /\ pc[p] = "SetUnlock"
    /\ mutex' = Free
    /\ pc' = [pc EXCEPT ![p] = "idle"]
    /\ frame' = [frame EXCEPT ![p] = NoFrame]
    /\ expect' = [expect EXCEPT ![p] = NoResult]
    /\ UNCHANGED <<items, queue, elems, capacity, lin, seqVars, raceVars, refVars, duelVars>>

\* A goroutine calls cache.Get.
BeginGet(p) ==
    /\ pc[p] = "idle"
    /\ pc' = [pc EXCEPT ![p] = "GetLock"]
    /\ UNCHANGED <<items, queue, elems, capacity, mutex, frame, lin, expect, seqVars, raceVars, refVars, duelVars>>

\* Lock in Get that does not wait for a holder (a read lock taken by an
\* operation that reorders the list).
GetLockNoWait(p) ==
    /\ pc[p] = "GetLock"
    /\ mutex' = IF mutex = Free THEN p ELSE mutex
    /\ \E key \in ConcKeys :
        /\ frame' = [frame EXCEPT ![p] = [NoFrame EXCEPT !.key = key, !.deferred = TRUE]]
        /\ lin' = Get(lin, key).cache
        /\ expect' = [expect EXCEPT ![p] =
                        [value |-> Get(lin, key).value, exists |-> Get(lin, key).exists]]
    /\ pc' = [pc EXCEPT ![p] = "GetLookup"]
    /\ UNCHANGED <<items, queue, elems, capacity, seqVars, raceVars, refVars, duelVars>>

\* cache.mutex.Lock(); defer cache.mutex.Unlock()
GetLock(p) ==
    /\ pc[p] = "GetLock"
    /\ mutex = Free
    /\ mutex' = p
    /\ \E key \in ConcKeys :
        /\ frame' = [frame EXCEPT ![p] = [NoFrame EXCEPT !.key = key, !.deferred = TRUE]]
        /\ lin' = Get(lin, key).cache
        /\ expect' = [expect EXCEPT ![p] =
                        [value |-> Get(lin, key).value, exists |-> Get(lin, key).exists]]
    /\ pc' = [pc EXCEPT ![p] = "GetLookup"]
    /\ UNCHANGED <<items, queue, elems, capacity, seqVars, raceVars, refVars, duelVars>>

\* item, exists := cache.items[key]; var value interface{}; if exists
GetLookup(p) ==
    /\ pc[p] = "GetLookup"
    /\ LET key == frame[p].key
           exists == key \in DOMAIN items
       IN /\ frame' = [frame EXCEPT ![p].exists = exists,
                                    ![p].item = IF exists THEN items[key] ELSE Nil,
                                    ![p].value = Nil]
          /\ pc' = [pc EXCEPT ![p] = IF exists THEN "GetMoveToFront" ELSE "GetReturn"]
    /\ UNCHANGED <<items, queue, elems, capacity, mutex, lin, expect, seqVars, raceVars, refVars, duelVars>>

\* The move step of a Get that calls queue.Remove instead of queue.MoveToFront.
GetMoveToFrontRemoves(p) ==
    /\ pc[p] = "GetMoveToFront"
    /\ queue' = Remove(queue, frame[p].item)
    /\ pc' = [pc EXCEPT ![p] = "GetRead"]
    /\ UNCHANGED <<items, elems, capacity, mutex, frame, lin, expect, seqVars, raceVars, refVars, duelVars>>

\* The move step of a Get that leaves the element where it is.
GetMoveToFrontSkipped(p) ==
    /\ pc[p] = "GetMoveToFront"
    /\ pc' = [pc EXCEPT ![p] = "GetRead"]
    /\ UNCHANGED <<items, queue, elems, capacity, mutex, frame, lin, expect, seqVars, raceVars, refVars, duelVars>>

\* cache.queue.MoveToFront(item) in Get
GetMoveToFront(p) ==
    /\ pc[p] = "GetMoveToFront"
    /\ queue' = MoveToFront(queue, frame[p].item)
    /\ pc' = [pc EXCEPT ![p] = "GetRead"]
    /\ UNCHANGED <<items, elems, capacity, mutex, frame, lin, expect, seqVars, raceVars, refVars, duelVars>>

\* value = item.Value.(cacheItem).value
GetRead(p) ==
    /\ pc[p] = "GetRead"
    /\ frame' = [frame EXCEPT ![p].value = elems[frame[p].item].value]
    /\ pc' = [pc EXCEPT ![p] = "GetReturn"]
    /\ UNCHANGED <<items, queue, elems, capacity, mutex, lin, expect, seqVars, raceVars, refVars, duelVars>>

\* return value, exists; then the deferred cache.mutex.Unlock() runs
GetReturn(p) ==
    /\ pc[p] = "GetReturn"
    /\ mutex' = Free
    /\ pc' = [pc EXCEPT ![p] = "idle"]
    /\ frame' = [frame EXCEPT ![p] = NoFrame]
    /\ expect' = [expect EXCEPT ![p] = NoResult]
    /\ UNCHANGED <<items, queue, elems, capacity, lin, seqVars, raceVars, refVars, duelVars>>

ConcNext ==
    \E p \in Procs :
        \/ BeginSet(p)
        \/ SetLock(p)
        \/ SetLookup(p)
        \/ SetPushFront(p)
        \/ SetIndex(p)
        \/ SetEvict(p)
        \/ SetUpdate(p)
        \/ SetMoveToFront(p)
        \/ SetUnlock(p)
        \/ BeginGet(p)
        \/ GetLock(p)
        \/ GetLookup(p)
        \/ GetMoveToFront(p)
        \/ GetRead(p)
        \/ GetReturn(p)

ConcSpec == Init /\ [][ConcNext]_vars

\* ------------------------------------------------ racing writers on one key
\* The value goroutine p writes in the race: pairwise distinct.
RaceValue(p) == p

\* With no call in progress, every goroutine calls cache.Set(key, RaceValue(p)).
RaceBegin(key) ==
    /\ race = NoRace
    /\ \A p \in Procs : pc[p] = "idle"
    /\ pc' = [p \in Procs |-> "RaceLock"]
    /\ race' = [NoRace EXCEPT !.key = key, !.fresh = key \notin DOMAIN items]
    /\ UNCHANGED <<items, queue, elems, capacity, mutex, frame, lin, expect, seqVars, refVars, duelVars>>

\* cache.mutex.Lock() in the Set of a racing writer.
RaceSetLock(p) ==
    /\ pc[p] = "RaceLock"
    /\ mutex = Free
    /\ mutex' = p
    /\ frame' = [frame EXCEPT ![p] =
                    [NoFrame EXCEPT !.key = race.key, !.value = RaceValue(p)]]
    /\ lin' = Set(lin, race.key, RaceValue(p)).cache
    /\ expect' = [expect EXCEPT ![p] =
                    [value |-> Nil, exists |-> Set(lin, race.key, RaceValue(p)).exists]]
    /\ race' = [race EXCEPT !.order = Append(race.order, p)]
    /\ pc' = [pc EXCEPT ![p] = "SetLookup"]
    /\ UNCHANGED <<items, queue, elems, capacity, seqVars, refVars, duelVars>>

\* cache.mutex.Unlock(); return exists, in the Set of a racing writer.
RaceSetUnlock(p) ==
    /\ race # NoRace
    /\ pc[p] = "SetUnlock"
    /\ mutex' = Free
    /\ race' = [race EXCEPT !.ret = MapPut(race.ret, p, frame[p].exists)]
    /\ pc' = [pc EXCEPT ![p] = "idle"]
    /\ frame' = [frame EXCEPT ![p] = NoFrame]
    /\ expect' = [expect EXCEPT ![p] = NoResult]
    /\ UNCHANGED <<items, queue, elems, capacity, lin, seqVars, refVars, duelVars>>

\* Any calls, then one race; once the race has begun no other call starts.
RaceNext ==
    \/ \E key \in ConcKeys : RaceBegin(key)
    \/ \E p \in Procs :
        \/ race = NoRace /\ BeginSet(p)
        \/ race = NoRace /\ BeginGet(p)
        \/ RaceSetLock(p)
        \/ SetLock(p)
        \/ SetLookup(p)
        \/ SetPushFront(p)
        \/ SetIndex(p)
        \/ SetEvict(p)
        \/ SetUpdate(p)
        \/ SetMoveToFront(p)
        \/ race = NoRace /\ SetUnlock(p)
        \/ RaceSetUnlock(p)
        \/ GetLock(p)
        \/ GetLookup(p)
        \/ GetMoveToFront(p)
        \/ GetRead(p)
        \/ GetReturn(p)

RaceSpec == Init /\ [][RaceNext]_vars

\* Every racing writer has taken the lock and returned.
RaceOver ==
    /\ race # NoRace
    /\ Len(race.order) = NumProcs
    /\ DOMAIN race.ret = Procs
    /\ \A p \in Procs : pc[p] = "idle"

\* The statements between Lock and Unlock.
SetCritical == {"SetLookup", "SetPushFront", "SetIndex", "SetEvict", "SetUpdate",
                "SetMoveToFront", "SetUnlock"}
GetCritical == {"GetLookup", "GetMoveToFront", "GetRead", "GetReturn"}

\* A panic inside a call after Lock: the goroutine unwinds, its deferred calls
\* run (Get has deferred Unlock, Set has deferred nothing), and the call has
\* ended; the caller recovers.
Panic(p) ==
    /\ pc[p] \in {"SetEvict", "SetUpdate", "GetRead"}
    /\ mutex' = IF frame[p].deferred THEN Free ELSE mutex
    /\ pc' = [pc EXCEPT ![p] = "idle"]
    /\ frame' = [frame EXCEPT ![p] = NoFrame]
    /\ expect' = [expect EXCEPT ![p] = NoResult]
    /\ UNCHANGED <<items, queue, elems, capacity, lin, seqVars, raceVars, refVars, duelVars>>

PanicNext ==
    \/ ConcNext
    \/ \E p \in Procs : Panic(p)

PanicSpec == Init /\ [][PanicNext]_vars

\* ------------------------------------ a read against an evicting write
\* A completed cache.Set(key, value) that fills the cache before the duel.
DuelFill(key, value) ==
    /\ duel = NoDuel
    /\ mutex = Free
    /\ LET r == Set(cache, key, value) IN
        /\ items' = r.cache.items
        /\ queue' = r.cache.queue
        /\ elems' = r.cache.elems
        /\ lin' = r.cache
    /\ UNCHANGED <<capacity, mutex, pc, frame, expect, seqVars, raceVars, refVars, duelVars>>

\* On a full cache, goroutine g calls Get of the least recently used key (the
\* key at the back) while goroutine s calls Set of a key that is not present.
DuelBegin(g, s) ==
    /\ duel = NoDuel
    /\ g # s
    /\ mutex = Free
    /\ Len(queue) = capacity
    /\ duel' = [NoDuel EXCEPT !.getter = g, !.setter = s, !.key = BackKey(cache),
                              !.old = StoredValue(cache, BackKey(cache))]
    /\ pc' = [pc EXCEPT ![g] = "DuelGetLock", ![s] = "DuelSetLock"]
    /\ UNCHANGED <<items, queue, elems, capacity, mutex, frame, lin, expect, seqVars, raceVars, refVars>>

\* cache.mutex.Lock(); defer cache.mutex.Unlock() in the Get of the duel.
DuelGetLock(p) ==
    /\ pc[p] = "DuelGetLock"
    /\ mutex = Free
    /\ mutex' = p
    /\ frame' = [frame EXCEPT ![p] = [NoFrame EXCEPT !.key = duel.key, !.deferred = TRUE]]
    /\ lin' = Get(lin, duel.key).cache
    /\ expect' = [expect EXCEPT ![p] = [value |-> Get(lin, duel.key).value,
                                        exists |-> Get(lin, duel.key).exists]]
    /\ duel' = [duel EXCEPT !.order = Append(duel.order, p)]
    /\ pc' = [pc EXCEPT ![p] = "GetLookup"]
    /\ UNCHANGED <<items, queue, elems, capacity, seqVars, raceVars, refVars>>

\* cache.mutex.Lock() in the Set of the duel; its key is one not present.
DuelSetLock(p) ==
    /\ pc[p] = "DuelSetLock"
    /\ mutex = Free
    /\ mutex' = p
    /\ \E key \in Keys \ DOMAIN lin.items :
        /\ key # duel.key
        /\ frame' = [frame EXCEPT ![p] =
                        [NoFrame EXCEPT !.key = key, !.value = RaceValue(p)]]
        /\ lin' = Set(lin, key, RaceValue(p)).cache
        /\ expect' = [expect EXCEPT ![p] =
                        [value |-> Nil, exists |-> Set(lin, key, RaceValue(p)).exists]]
    /\ duel' = [duel EXCEPT !.order = Append(duel.order, p)]
    /\ pc' = [pc EXCEPT ![p] = "SetLookup"]
    /\ UNCHANGED <<items, queue, elems, capacity, seqVars, raceVars, refVars>>

\* return value, exists (the deferred Unlock runs) in the Get of the duel.
DuelGetReturn(p) ==
    /\ pc[p] = "GetReturn"
    /\ mutex' = Free
    /\ duel' = [duel EXCEPT !.returned = TRUE, !.found = frame[p].exists,
                            !.value = frame[p].value]
    /\ pc' = [pc EXCEPT ![p] = "idle"]
    /\ frame' = [frame EXCEPT ![p] = NoFrame]
    /\ expect' = [expect EXCEPT ![p] = NoResult]
    /\ UNCHANGED <<items, queue, elems, capacity, lin, seqVars, raceVars, refVars>>

\* Completed Sets, then one Get against one Set of a new key.
DuelNext ==
    \/ \E key \in Keys, value \in Values : DuelFill(key, value)
    \/ \E g \in Procs, s \in Procs : DuelBegin(g, s)
    \/ \E p \in Procs :
        \/ DuelGetLock(p)
        \/ DuelSetLock(p)
        \/ SetLookup(p)
        \/ SetPushFront(p)
        \/ SetIndex(p)
        \/ SetEvict(p)
        \/ SetUnlock(p)
        \/ GetLookup(p)
        \/ GetMoveToFront(p)
        \/ GetRead(p)
        \/ DuelGetReturn(p)

DuelSpec == Init /\ [][DuelNext]_vars

\* Both calls of the duel have returned.
DuelOver ==
    /\ duel # NoDuel
    /\ duel.returned
    /\ Len(duel.order) = 2
    /\ \A p \in Procs : pc[p] = "idle"

\* ------------------------------------------- caches of three or more keys
\* The keys a call may be given: those in use and one no caller has used yet,
\* so that a cache holding every key of Keys can still be given a new key.
WideKeys == Keys \cup {NewKey(1)}

\* An empty cache of a capacity up to MaxWideCapacity, its mutex unlocked.
WideInit ==
    /\ capacity \in 1..MaxWideCapacity
    /\ items = <<>>
    /\ queue = <<>>
    /\ elems = <<>>
    /\ mutex = Free
    /\ touched = <<>>
    /\ last = [op |-> "none", key |-> Nil, value |-> Nil, exists |-> FALSE,
               ret |-> Nil,
               pre |-> [items |-> <<>>, queue |-> <<>>, elems |-> <<>>,
                        capacity |-> capacity],
               preTouched |-> <<>>]
    /\ pc = [p \in Procs |-> "idle"]
    /\ frame = [p \in Procs |-> NoFrame]
    /\ lin = [items |-> <<>>, queue |-> <<>>, elems |-> <<>>, capacity |-> capacity]
    /\ expect = [p \in Procs |-> NoResult]
    /\ race = NoRace
    /\ ref = NoRef
    /\ duel = NoDuel

\* A completed cache.Set(key, value), no history kept.
WideSet(key, value) ==
    /\ mutex = Free
    /\ LET r == Set(cache, key, value) IN
        /\ items' = r.cache.items
        /\ queue' = r.cache.queue
        /\ elems' = r.cache.elems
        /\ lin' = r.cache
    /\ UNCHANGED <<capacity, mutex, pc, frame, expect, seqVars, raceVars, refVars, duelVars>>

\* A completed cache.Get(key), no history kept.
WideGet(key) ==
    /\ mutex = Free
    /\ LET r == Get(cache, key) IN
        /\ items' = r.cache.items
        /\ queue' = r.cache.queue
        /\ elems' = r.cache.elems
        /\ lin' = r.cache
    /\ UNCHANGED <<capacity, mutex, pc, frame, expect, seqVars, raceVars, refVars, duelVars>>

WideNext ==
    \/ \E key \in Keys, value \in Values : WideSet(key, value)
    \/ \E key \in Keys : WideGet(key)

WideSpec == WideInit /\ [][WideNext]_vars

\* ------------------------------------------------------- fair scheduling
\* A step of goroutine p inside a call, other than waiting in Lock.
Running(p) ==
    \/ SetLookup(p)
    \/ SetPushFront(p)
    \/ SetIndex(p)
    \/ SetEvict(p)
    \/ SetUpdate(p)
    \/ SetMoveToFront(p)
    \/ SetUnlock(p)
    \/ GetLookup(p)
    \/ GetMoveToFront(p)
    \/ GetRead(p)
    \/ GetReturn(p)

\* cache.mutex.Lock() in Set, the caller storing under each key one value (the
\* key itself): which value is stored decides no branch of Set or Get.
FairSetLock(p) ==
    /\ SetLock(p)
    /\ frame'[p].value = frame'[p].key

FairNext ==
    \E p \in Procs :
        \/ BeginSet(p)
        \/ BeginGet(p)
        \/ FairSetLock(p)
        \/ GetLock(p)
        \/ Running(p)

\* The scheduler runs every goroutine that can take a step, and the mutex
\* hands the lock to a goroutine that keeps waiting for it (sync.Mutex does
\* not starve a waiter). Whether a goroutine calls again is up to the caller.
FairSpec ==
    /\ Init
    /\ [][FairNext]_vars
    /\ \A p \in Procs :
        /\ WF_vars(Running(p))
        /\ SF_vars(FairSetLock(p))
        /\ SF_vars(GetLock(p))

\* ================================================================= claims

\* C1: after any sequence of completed Set and Get calls on a cache of
\* capacity C >= 1, at most C keys are present.
C1_CapacityInvariant ==
    Cardinality({k \in Keys : Get(cache, k).exists}) <= capacity

\* A Set of a new key into a full cache has just returned.
C1_Witness ==
    /\ last.op = "Set"
    /\ last.key \notin Present(last.pre)
    /\ Cardinality(Present(last.pre)) = capacity
    /\ Cardinality({k \in Keys : Get(cache, k).exists}) = capacity

\* C2: a Set of an absent key into a cache holding C keys makes the least
\* recently touched key absent and keeps every other key, and the new one,
\* present with its value.
C2_OverflowEvictsLeastRecent ==
    (/\ last.op = "Set"
     /\ last.key \notin Present(last.pre)
     /\ Cardinality(Present(last.pre)) = capacity)
    => LET k1 == LeastRecent(last.pre, last.preTouched) IN
       /\ ~Get(cache, k1).exists
       /\ \A k \in Present(last.pre) \ {k1} :
            /\ Get(cache, k).exists
            /\ Get(cache, k).value = StoredValue(last.pre, k)
       /\ Get(cache, last.key).exists
       /\ Get(cache, last.key).value = last.value

\* The overflow happened in a cache of two keys whose least recently touched
\* key is not the one that was inserted first.
C2_Witness ==
    /\ last.op = "Set"
    /\ last.key \notin Present(last.pre)
    /\ Cardinality(Present(last.pre)) = capacity
    /\ capacity >= 2
    /\ LeastRecent(last.pre, last.preTouched) \notin Present(cache)
    /\ LeastRecent(last.pre, last.preTouched) # last.preTouched[1]

\* C3 as claimed: a Get hit returns (value, true) and makes the key the front
\* key; after a Get of the least recently used key of a full cache, a Set of
\* a new key leaves that key present and evicts the second least recently
\* used key.
C3_AsClaimed ==
    (last.op = "Get" /\ last.key \in Present(last.pre))
    => /\ last.exists
       /\ last.ret = StoredValue(last.pre, last.key)
       /\ FrontKey(cache) = last.key
       /\ (Full(last.pre) /\ last.key = LeastRecent(last.pre, last.preTouched))
          => \A k \in Keys \ Present(cache), v \in Values :
               LET after == Set(cache, k, v).cache IN
               /\ Get(after, last.key).exists
               /\ Present(cache) \ Present(after)
                    = {SecondLeastRecent(last.pre, last.preTouched)}

\* C3 amended: the same, the consequence for a capacity of at least 2 (with a
\* capacity of 1 the key read is the only key, and the next overflow evicts it).
C3_GetHitRefreshesRecency ==
    (last.op = "Get" /\ last.key \in Present(last.pre))
    => /\ last.exists
       /\ last.ret = StoredValue(last.pre, last.key)
       /\ FrontKey(cache) = last.key
       /\ (/\ capacity >= 2
           /\ Full(last.pre)
           /\ last.key = LeastRecent(last.pre, last.preTouched))
          => \A k \in Keys \ Present(cache), v \in Values :
               LET after == Set(cache, k, v).cache IN
               /\ Get(after, last.key).exists
               /\ Present(cache) \ Present(after)
                    = {SecondLeastRecent(last.pre, last.preTouched)}

\* A Get has just hit the least recently used key of a full cache of two or
\* more keys, and a new key is left to set.
C3_Witness ==
    /\ last.op = "Get"
    /\ last.exists
    /\ capacity >= 2
    /\ Full(last.pre)
    /\ last.key = LeastRecent(last.pre, last.preTouched)
    /\ Back(last.pre.queue) = last.pre.items[last.key]
    /\ Keys \ Present(cache) # {}

\* C4: a Set on a present key returns true, leaves the set of present keys as
\* it was, and a following Get of the key returns the new value.
C4_SetPresentKey ==
    (last.op = "Set" /\ last.key \in Present(last.pre))
    => /\ last.exists
       /\ Present(cache) = Present(last.pre)
       /\ {k \in Keys : Get(cache, k).exists} = Present(last.pre)
       /\ Cardinality(Present(cache)) = Cardinality(Present(last.pre))
       /\ Get(cache, last.key).exists
       /\ Get(cache, last.key).value = last.value

\* A Set has just replaced the value of a key of a full cache by another one.
C4_Witness ==
    /\ last.op = "Set"
    /\ last.key \in Present(last.pre)
    /\ Full(last.pre)
    /\ StoredValue(last.pre, last.key) # last.value
    /\ Get(cache, last.key).value = last.value

\* C5: a Set of an absent key returns false and puts the key at the front: a
\* following Get returns (v, true), and under Sets of distinct new keys with
\* no other touch the key outlives every other key that was present.
C5_SetAbsentKey ==
    (last.op = "Set" /\ last.key \notin Present(last.pre))
    => /\ ~last.exists
       /\ Get(cache, last.key).exists
       /\ Get(cache, last.key).value = last.value
       /\ FrontKey(cache) = last.key
       /\ \A n \in 0..(capacity - 1) :
            last.key \in Present(AfterNewKeys(cache, n, last.value))
       /\ Present(AfterNewKeys(cache, capacity - 1, last.value)) \cap Present(cache)
            = {last.key}
       /\ last.key \notin Present(AfterNewKeys(cache, capacity, last.value))

\* A Set has just inserted a new key into a full cache of two or more keys.
C5_Witness ==
    /\ last.op = "Set"
    /\ ~last.exists
    /\ capacity >= 2
    /\ Full(last.pre)
    /\ FrontKey(cache) = last.key

\* C6: a Get of an absent key returns (zero value, false) and leaves the
\* index, the list and every stored value as they were.
C6_GetMissIsNoOp ==
    (last.op = "Get" /\ last.key \notin Present(last.pre))
    => /\ ~last.exists
       /\ last.ret = Nil
       /\ cache = last.pre
       /\ Front(queue) = Front(last.pre.queue)
       /\ Back(queue) = Back(last.pre.queue)

\* A Get has just missed in a cache of two or more keys.
C6_Witness ==
    /\ last.op = "Get"
    /\ ~last.exists
    /\ last.key \notin Present(cache)
    /\ Len(queue) >= 2

\* C7: in every reachable state, Set(k, v) followed at once by Get(k) returns
\* (v, true), for every key and value.
C7_SetThenGet ==
    \A k \in Keys, v \in Values :
        LET r == Get(Set(cache, k, v).cache, k) IN
        r.exists /\ r.value = v

\* A Set into a full cache of capacity 1 has just replaced the only key, and
\* the key it set is the one present.
C7_Witness ==
    /\ last.op = "Set"
    /\ capacity = 1
    /\ Full(last.pre)
    /\ last.key \notin Present(last.pre)
    /\ Get(cache, last.key).exists
    /\ Get(cache, last.key).value = last.value

\* C8: concurrent Get and Set calls are linearizable. Order the calls by the
\* moment each takes the lock, which lies between its invocation and its
\* return; lin is the cache, and expect the results, of running them alone in
\* that order. Every call returns what that serial run returns, and whenever
\* no call holds the lock the cache is the one the serial run produces.
C8_Linearizable ==
    /\ mutex = Free => cache = lin
    /\ \A p \in Procs :
        /\ pc[p] = "SetUnlock" => frame[p].exists = expect[p].exists
        /\ pc[p] = "GetReturn" =>
             /\ frame[p].exists = expect[p].exists
             /\ frame[p].value = expect[p].value

\* A Get that found its key is about to return while another goroutine,
\* which called Set meanwhile, waits for the lock.
C8_Witness ==
    \E p \in Procs, q \in Procs :
        /\ p # q
        /\ pc[p] = "GetReturn"
        /\ frame[p].exists
        /\ frame[p].value = expect[p].value
        /\ pc[q] = "SetLock"
        /\ Len(queue) = capacity

\* C9: at most one call is between its Lock and its Unlock, it is the holder
\* of the mutex, and every step that changes the index, the list or an
\* element is a step of the holder.
C9_MutualExclusion ==
    /\ [](/\ \A p \in Procs : pc[p] \in SetCritical \cup GetCritical => mutex = p
          /\ Cardinality({p \in Procs : pc[p] \in SetCritical \cup GetCritical}) <= 1)
    /\ [][<<items, queue, elems>>' # <<items, queue, elems>>
          => /\ mutex # Free
             /\ mutex' = mutex
             /\ pc[mutex] \in SetCritical \cup GetCritical
             /\ pc'[mutex] # pc[mutex]]_vars

\* A Set holds the lock with the list one element over the capacity while
\* another goroutine waits in Get's Lock.
C9_Witness ==
    \E p \in Procs, q \in Procs :
        /\ p # q
        /\ pc[p] = "SetEvict"
        /\ mutex = p
        /\ Len(queue) > capacity
        /\ pc[q] = "GetLock"

\* C10: after any call has ended, by return or by panic, the goroutine that
\* made it does not hold the lock.
C10_LockReleasedOnEveryExit ==
    \A p \in Procs : pc[p] = "idle" => mutex # p

\* C11: when every goroutine has called Set(k, v_p) once, concurrently and
\* with pairwise distinct values, and all have returned, the list holds one
\* element for k, Get(k) returns the value of the writer that took the lock
\* last and of no other, and k is where that last call put it: at the front,
\* the cache being the one the calls produce run alone in lock order.
C11_RacingWriters ==
    RaceOver
    => LET k == race.key
           w == race.order[NumProcs]
       IN /\ Cardinality({i \in 1..Len(queue) : elems[queue[i]].key = k}) = 1
          /\ Get(cache, k).exists
          /\ Get(cache, k).value = RaceValue(w)
          /\ Cardinality({p \in Procs : RaceValue(p) = Get(cache, k).value}) = 1
          /\ FrontKey(cache) = k
          /\ cache = lin

\* The race is over in a full cache; the writers did not take the lock in the
\* order of their numbers, and another key is still present.
C11_Witness ==
    /\ RaceOver
    /\ race.order[1] # 1
    /\ Len(queue) = capacity
    /\ Len(queue) >= 2
    /\ Get(cache, race.key).value = RaceValue(race.order[NumProcs])

C13_GetAndSetAreTotal ==
    \A key \in Keys :
        /\ ~GetAborts(cache, key)
        /\ \A value \in Values : ~SetAborts(cache, key, value)
        /\ key \notin Present(cache)
            => /\ Get(cache, key) = [cache |-> cache, value |-> Nil, exists |-> FALSE]
               /\ \A value \in Values :
                    LET r == Set(cache, key, value) IN
                    /\ r.exists = FALSE
                    /\ key \in Present(r.cache)
                    /\ Full(cache) => Full(r.cache)
        /\ key \in Present(cache)
            => /\ Get(cache, key).exists = TRUE
               /\ \A value \in Values : Set(cache, key, value).exists = TRUE

\* A Get has just missed on a full cache of the largest capacity, whose keys
\* arrived through an overflow.
C13_Witness ==
    /\ last.op = "Get"
    /\ ~last.exists
    /\ last.ret = Nil
    /\ Full(cache)
    /\ capacity = MaxCapacity
    /\ Len(touched) > capacity

\* C14: under any interleaving, whenever the mutex is free the cache satisfies
\* I1, I2 and I3; a state that breaks one of them (the new element pushed but
\* not indexed, or the overflow not yet evicted) occurs only while the Set
\* that made it holds the mutex, between its PushFront and its eviction.
C14_NoIntermediateStateVisible ==
    /\ mutex = Free => I1(cache) /\ I2(cache) /\ I3(cache)
    /\ ~(I1(cache) /\ I2(cache) /\ I3(cache))
        => /\ mutex \in Procs
           /\ pc[mutex] \in {"SetIndex", "SetEvict"}
           /\ \A q \in Procs \ {mutex} : pc[q] \in {"idle", "SetLock", "GetLock"}

\* A Set holds the mutex with the list over capacity and the eviction still to
\* come, while another goroutine waits for the mutex.
C14_Witness ==
    /\ mutex \in Procs
    /\ pc[mutex] = "SetEvict"
    /\ I1(cache)
    /\ ~I2(cache)
    /\ \E q \in Procs \ {mutex} : pc[q] \in {"SetLock", "GetLock"}

\* C15 (I1): after any sequence of completed Get and Set calls, the keys of
\* the index are exactly the keys the elements of the list carry, one element
\* per key, and the element the index gives for a key carries that key.
C15_IndexOrderingCorrespondence ==
    /\ I1(cache)
    /\ DOMAIN items = {elems[queue[i]].key : i \in 1..Len(queue)}
    /\ {items[k] : k \in DOMAIN items} = Range(queue)
    /\ \A k \in DOMAIN items : elems[items[k]].key = k

\* A Set has just updated a key that was not at the front of a full cache
\* from which a key was evicted before.
C15_Witness ==
    /\ last.op = "Set"
    /\ last.exists
    /\ Full(cache)
    /\ Len(touched) > capacity
    /\ Front(last.pre.queue) # last.pre.items[last.key]
    /\ items[last.key] = Front(queue)

\* C16 (I3): after any sequence of completed Get and Set calls, no key is
\* carried by more than one element of the list; a Set on a present key leaves
\* the list as long as it was, with one element for that key.
C16_NoDuplicates ==
    /\ I3(cache)
    /\ \A k \in Keys :
        Cardinality({i \in 1..Len(queue) : elems[queue[i]].key = k}) <= 1
    /\ (last.op = "Set" /\ last.key \in Present(last.pre))
        => /\ Len(queue) = Len(last.pre.queue)
           /\ Cardinality({i \in 1..Len(queue) : elems[queue[i]].key = last.key}) = 1
    /\ \A k \in Present(cache), v \in Values :
        LET c == Set(cache, k, v).cache IN
        Len(c.queue) = Len(queue) /\ I3(c)

\* A Set has just written a new value to the only key of a cache that is not
\* full, and the list kept its single element.
C16_Witness ==
    /\ last.op = "Set"
    /\ last.key \in Present(last.pre)
    /\ StoredValue(last.pre, last.key) # last.value
    /\ ~Full(cache)
    /\ Len(queue) = Len(last.pre.queue)
    /\ Len(queue) = 1

\* C17 (I4): after any sequence of completed calls that leaves the cache
\* non-empty, the front of the list carries the key of the most recent Set or
\* Get hit, and the back carries the present key whose last touch is oldest,
\* which is the key a Set of a new key evicts when the cache is full.
C17_FrontBack ==
    Len(queue) > 0
    => /\ FrontKey(cache) = touched[Len(touched)]
       /\ (last.op = "Set" \/ (last.op = "Get" /\ last.exists))
            => FrontKey(cache) = last.key
       /\ (last.op = "Get" /\ ~last.exists)
            => FrontKey(cache) = FrontKey(last.pre)
       /\ BackKey(cache) = LeastRecent(cache, touched)
       /\ Full(cache)
            => \A k \in Keys \ Present(cache), v \in Values :
                Present(Set(cache, k, v).cache)
                    = (Present(cache) \ {BackKey(cache)}) \cup {k}

\* A Get hit has just moved the back key of a full cache of two or more keys
\* to the front, so the back is now another key.
C17_Witness ==
    /\ last.op = "Get"
    /\ last.exists
    /\ Full(cache)
    /\ capacity >= 2
    /\ BackKey(last.pre) = last.key
    /\ FrontKey(cache) = last.key
    /\ BackKey(cache) # last.key

\* C18: in every reachable state and for every key, Get leaves the set of
\* present keys, the live count, the capacity and the value stored for every
\* key as they were; a hit changes only the position of the key it reads,
\* which goes to the front while the other keys keep their order.
C18_GetNeverEvicts ==
    /\ \A key \in Keys :
        LET c == Get(cache, key).cache IN
        /\ Present(c) = Present(cache)
        /\ Len(c.queue) = Len(queue)
        /\ c.capacity = capacity
        /\ \A k \in Present(cache) : StoredValue(c, k) = StoredValue(cache, k)
        /\ Without(QueueKeys(c), key) = Without(QueueKeys(cache), key)
        /\ key \in Present(cache) => QueueKeys(c)[1] = key
    /\ last.op = "Get"
        => /\ Present(cache) = Present(last.pre)
           /\ Len(queue) = Len(last.pre.queue)
           /\ \A k \in Present(cache) : StoredValue(cache, k) = StoredValue(last.pre, k)
           /\ Without(QueueKeys(cache), last.key) = Without(QueueKeys(last.pre), last.key)

\* A Get has just hit the back key of a cache that is full, with two or more
\* keys holding different values, and the order of the list changed.
C18_Witness ==
    /\ last.op = "Get"
    /\ last.exists
    /\ Full(cache)
    /\ QueueKeys(cache) # QueueKeys(last.pre)
    /\ \E j, k \in Present(cache) : StoredValue(cache, j) # StoredValue(cache, k)

\* C19: a Set of a new key into a cache holding C keys removes exactly one
\* entry, another key's, from the index and from the list; a Set of a new key
\* into a cache holding fewer than C keys removes none.
C19_OneEvictionPerOverflow ==
    (last.op = "Set" /\ last.key \notin Present(last.pre))
    => LET gone == Present(last.pre) \ Present(cache)
           unlisted == Range(QueueKeys(last.pre)) \ Range(QueueKeys(cache))
       IN IF Cardinality(Present(last.pre)) = capacity
          THEN /\ Cardinality(gone) = 1
               /\ unlisted = gone
               /\ last.key \notin gone
               /\ Len(queue) = Len(last.pre.queue)
               /\ Cardinality(Present(cache)) = Cardinality(Present(last.pre))
          ELSE /\ Cardinality(Present(last.pre)) < capacity
               /\ gone = {}
               /\ unlisted = {}
               /\ Len(queue) = Len(last.pre.queue) + 1
               /\ Cardinality(Present(cache)) = Cardinality(Present(last.pre)) + 1

\* A Set of a new key into a full cache of the largest capacity has just
\* returned, and one of the keys that were present is gone.
C19_Witness ==
    /\ last.op = "Set"
    /\ last.key \notin Present(last.pre)
    /\ capacity = MaxCapacity
    /\ Cardinality(Present(last.pre)) = capacity
    /\ Cardinality(Present(last.pre) \ Present(cache)) = 1

\* C20 as claimed: a Set on a present key puts it where a Get hit would; after
\* Set(k1, v) on the least recently used key k1 of a full cache, a Set of a
\* new key leaves k1 present with value v and evicts the second least
\* recently used key.
C20_AsClaimed ==
    (last.op = "Set" /\ last.key \in Present(last.pre))
    => /\ QueueKeys(cache) = QueueKeys(Get(last.pre, last.key).cache)
       /\ (Full(last.pre) /\ last.key = LeastRecent(last.pre, last.preTouched))
          => \A k \in Keys \ Present(cache), v \in Values :
               LET after == Set(cache, k, v).cache IN
               /\ Get(after, last.key).exists
               /\ Get(after, last.key).value = last.value
               /\ Present(cache) \ Present(after)
                    = {SecondLeastRecent(last.pre, last.preTouched)}

\* C20 amended: the same, the consequence for a capacity of at least 2 (with a
\* capacity of 1 the key written is the only key, and the next overflow evicts
\* it).
C20_SetPresentRefreshesRecency ==
    (last.op = "Set" /\ last.key \in Present(last.pre))
    => /\ QueueKeys(cache) = QueueKeys(Get(last.pre, last.key).cache)
       /\ (/\ capacity >= 2
           /\ Full(last.pre)
           /\ last.key = LeastRecent(last.pre, last.preTouched))
          => \A k \in Keys \ Present(cache), v \in Values :
               LET after == Set(cache, k, v).cache IN
               /\ Get(after, last.key).exists
               /\ Get(after, last.key).value = last.value
               /\ Present(cache) \ Present(after)
                    = {SecondLeastRecent(last.pre, last.preTouched)}

\* A Set has just written a new value to the least recently used key of a full
\* cache of two or more keys, and a new key is left to set.
C20_Witness ==
    /\ last.op = "Set"
    /\ last.exists
    /\ capacity >= 2
    /\ Full(last.pre)
    /\ last.key = LeastRecent(last.pre, last.preTouched)
    /\ BackKey(last.pre) = last.key
    /\ StoredValue(last.pre, last.key) # last.value
    /\ Keys \ Present(cache) # {}

\* C21: the list cache and the last-touch-time reference, given the same
\* calls, return the same results and hold the same key-to-value bindings;
\* the keys of the list from front to back are the reference's keys by
\* decreasing last-touch time, all times differing, so the oldest is unique.
C21_LastTouchTimeEquivalence ==
    /\ last.op # "none" => last.exists = ref.exists /\ last.ret = ref.value
    /\ Present(cache) = DOMAIN ref.entries
    /\ \A k \in Present(cache) : StoredValue(cache, k) = ref.entries[k].value
    /\ Range(QueueKeys(cache)) = DOMAIN ref.entries
    /\ \A i, j \in 1..Len(queue) :
        i < j => ref.entries[QueueKeys(cache)[i]].time
                    > ref.entries[QueueKeys(cache)[j]].time
    /\ \A j, k \in DOMAIN ref.entries :
        j # k => ref.entries[j].time # ref.entries[k].time
    /\ Len(queue) > 0 => BackKey(cache) = Oldest(ref.entries)

\* A Set has just evicted from a full cache of two or more keys a key that
\* was inserted after one that stays: the order of last touches decided, not
\* the order of insertion.
C21_Witness ==
    /\ last.op = "Set"
    /\ ~last.exists
    /\ ~ref.exists
    /\ capacity >= 2
    /\ Full(last.pre)
    /\ \E k \in Present(last.pre) \ Present(cache), j \in Present(cache) :
        /\ j \in Present(last.pre)
        /\ last.pre.items[j] < last.pre.items[k]
    /\ Present(cache) = DOMAIN ref.entries

\* C22: in every state, the middle of a Set included, the list has at most
\* C + 1 elements, and C + 1 only while the Set that holds the mutex is
\* between its PushFront and its eviction; the only step that takes an element
\* off the list or a key out of the index is the eviction step of the Set that
\* holds the mutex, and it takes one.
C22_SynchronousEviction ==
    /\ [](/\ Len(queue) <= capacity + 1
          /\ Cardinality(DOMAIN items) <= capacity + 1
          /\ Len(queue) = capacity + 1
                => /\ mutex \in Procs
                   /\ pc[mutex] \in {"SetIndex", "SetEvict"}
                   /\ Cardinality({p \in Procs : pc[p] \in SetCritical}) = 1)
    /\ [][(Len(queue') < Len(queue) \/ ~(DOMAIN items \subseteq DOMAIN items'))
          => /\ mutex \in Procs
             /\ mutex' = mutex
             /\ pc[mutex] = "SetEvict"
             /\ pc'[mutex] = "SetUnlock"
             /\ Len(queue) = capacity + 1
             /\ Len(queue') = capacity
             /\ Cardinality(DOMAIN items \ DOMAIN items') = 1]_vars

\* A Set has pushed its element onto a full list and not yet indexed it: the
\* list has C + 1 elements and the index C keys.
C22_Witness ==
    /\ mutex \in Procs
    /\ pc[mutex] = "SetIndex"
    /\ Len(queue) = capacity + 1
    /\ Cardinality(DOMAIN items) = capacity

\* C23: under fair scheduling every invoked Set or Get takes the mutex and
\* returns, and a goroutine that is in no call does not hold the mutex: no
\* caller waits for the lock forever.
C23_EveryCallCompletes ==
    /\ [](\A p \in Procs : pc[p] = "idle" => mutex # p)
    /\ \A p \in Procs : pc[p] # "idle" ~> pc[p] = "idle"

\* One goroutine waits in Set's Lock while another, in Get, holds the mutex.
C23_Witness ==
    \E p \in Procs, q \in Procs :
        /\ p # q
        /\ pc[p] = "SetLock"
        /\ mutex = q
        /\ pc[q] = "GetMoveToFront"

\* C24: no Set and no Get, in any reachable state and for any key and value,
\* changes the capacity the cache was created with.
C24_CapacityIsFixed ==
    /\ \A key \in Keys :
        /\ Get(cache, key).cache.capacity = capacity
        /\ \A value \in Values : Set(cache, key, value).cache.capacity = capacity
    /\ last.pre.capacity = capacity
    /\ capacity \in Capacities

\* A Set has just overflowed a full cache whose capacity is below the largest,
\* and the capacity is what it was.
C24_Witness ==
    /\ last.op = "Set"
    /\ last.key \notin Present(last.pre)
    /\ Full(last.pre)
    /\ capacity < MaxCapacity
    /\ capacity = last.pre.capacity
    /\ Len(queue) = capacity

\* C25 as claimed: on a full cache whose least recently used key is k1, a
\* Get(k1) run concurrently with a Set of a new key ends in one of two ways:
\* Get returns (value, true) and k1 is still present, another key having been
\* evicted, or Get returns found = false and k1 is absent; Get never returns
\* found = true when the Set took the lock, and so evicted k1, before it.
C25_AsClaimed ==
    DuelOver
    => /\ \/ /\ duel.found
             /\ duel.value = duel.old
             /\ duel.key \in Present(cache)
             /\ Cardinality(Present(cache)) = capacity
          \/ /\ ~duel.found
             /\ duel.key \notin Present(cache)
       /\ duel.order[1] = duel.setter => ~duel.found

\* C25 amended: in a cache of capacity 2 or more the two outcomes are the only
\* ones; with capacity 1 a Get that takes the lock first returns (value, true)
\* and the Set then evicts k1, the only key. For every capacity the Get
\* finds k1 exactly when it takes the lock before the Set.
C25_ReadAgainstEvictingWrite ==
    DuelOver
    => /\ capacity >= 2
            => \/ /\ duel.found
                  /\ duel.value = duel.old
                  /\ duel.key \in Present(cache)
                  /\ Cardinality(Present(cache)) = capacity
               \/ /\ ~duel.found
                  /\ duel.key \notin Present(cache)
       /\ duel.order[1] = duel.setter => ~duel.found /\ duel.value = Nil
       /\ duel.order[1] = duel.getter => duel.found /\ duel.value = duel.old
       /\ capacity = 1 => duel.key \notin Present(cache)
       /\ cache = lin

\* The duel is over in a cache of two or more keys; the Get took the lock
\* first, found k1, and the Set evicted another key.
C25_Witness ==
    /\ DuelOver
    /\ capacity >= 2
    /\ duel.order[1] = duel.getter
    /\ duel.found
    /\ duel.key \in Present(cache)
    /\ FrontKey(cache) # duel.key

\* C26: when every goroutine calls Set concurrently on one key that was
\* absent, exactly one call returns false, the one that took the lock first,
\* and the other N - 1 return true; on a key that was present all return true.
C26_ExactlyOneFirstWriter ==
    RaceOver
    => IF race.fresh
       THEN /\ Cardinality({p \in Procs : ~race.ret[p]}) = 1
            /\ Cardinality({p \in Procs : race.ret[p]}) = NumProcs - 1
            /\ ~race.ret[race.order[1]]
       ELSE \A p \in Procs : race.ret[p]

\* The race was on a key absent from a full cache, and the goroutine that
\* returned false is not the first by number.
C26_Witness ==
    /\ RaceOver
    /\ race.fresh
    /\ Len(queue) = capacity
    /\ race.ret[1]
    /\ ~race.ret[race.order[1]]

\* The keys other than k have in c1 the values and the relative order they
\* have in c0, those of them that are no longer present aside.
C27_OthersAsBefore(c0, c1, k) ==
    /\ Present(c1) \ {k} \subseteq Present(c0)
    /\ \A j \in Present(c1) \ {k} : StoredValue(c1, j) = StoredValue(c0, j)
    /\ Without(QueueKeys(c1), k)
        = SelectSeq(QueueKeys(c0), LAMBDA j : j # k /\ j \in Present(c1))

\* C27: in every reachable state and for every key, those in use and one not
\* used before, a Get hit on k and a Set on a present key k keep every other
\* key, its value and the relative order of the other keys; a Set of a new
\* key keeps the value of every other key that stays and, the evicted key
\* aside, the relative order of the others.
C27_OthersLeftAlone ==
    \A k \in WideKeys :
        /\ k \in Present(cache)
            => /\ Present(Get(cache, k).cache) = Present(cache)
               /\ C27_OthersAsBefore(cache, Get(cache, k).cache, k)
               /\ \A v \in Values :
                    /\ Present(Set(cache, k, v).cache) = Present(cache)
                    /\ C27_OthersAsBefore(cache, Set(cache, k, v).cache, k)
        /\ k \notin Present(cache)
            => \A v \in Values :
                /\ C27_OthersAsBefore(cache, Set(cache, k, v).cache, k)
                /\ Cardinality(Present(cache) \ Present(Set(cache, k, v).cache))
                    = IF Full(cache) THEN 1 ELSE 0

\* A full cache of three keys, not all with the same value, and a key that is
\* not present: each call has two other keys whose order it could disturb.
C27_Witness ==
    /\ capacity = 3
    /\ Len(queue) = 3
    /\ NewKey(1) \notin Present(cache)
    /\ Cardinality(Present(Set(cache, NewKey(1), 1).cache) \cap Present(cache)) = 2
    /\ \E j, k \in Present(cache) : StoredValue(cache, j) # StoredValue(cache, k)

\* C28: a key that was evicted (it has been touched and is not present) is
\* forgotten: no element carries it, Get of it returns (nil, false) and
\* changes nothing, and Set(k, v) returns false and inserts it as a new entry
\* at the front with value v, evicting the least recently used key when the
\* cache is full; the value it had when it was evicted is not returned by a
\* Get that follows a Set of another value.
C28_EvictedKeyForgotten ==
    /\ \A k \in Range(touched) \ Present(cache) :
        /\ \A e \in DOMAIN elems : elems[e].key # k
        /\ Get(cache, k) = [cache |-> cache, value |-> Nil, exists |-> FALSE]
        /\ \A v \in Values :
            LET r == Set(cache, k, v) IN
            /\ ~r.exists
            /\ FrontKey(r.cache) = k
            /\ Get(r.cache, k).exists
            /\ Get(r.cache, k).value = v
            /\ Len(r.cache.queue) = IF Full(cache) THEN Len(queue) ELSE Len(queue) + 1
            /\ Present(r.cache)
                = IF Full(cache)
                  THEN (Present(cache) \ {LeastRecent(cache, touched)}) \cup {k}
                  ELSE Present(cache) \cup {k}
    /\ (last.op = "Set" /\ last.key \notin Present(last.pre) /\ Full(last.pre))
        => \A k \in Present(last.pre) \ Present(cache) :
            /\ k \in Range(touched)
            /\ \A v \in Values \ {StoredValue(last.pre, k)} :
                Get(Set(cache, k, v).cache, k).value # StoredValue(last.pre, k)

\* A Get has just missed on a key that was evicted from a cache of capacity 2
\* or more, which is full.
C28_Witness ==
    /\ last.op = "Get"
    /\ ~last.exists
    /\ last.key \in Range(touched)
    /\ last.key \notin Present(cache)
    /\ capacity >= 2
    /\ Full(cache)

\* The number of present keys: those the index of c holds.
LiveCount(c) == Cardinality(Present(c))

\* C29: from one completed call to the next the number of present keys does
\* not decrease; it grows by one on a Set of a new key into a cache that is
\* not full and is unchanged by every other call; once it is C it stays C.
C29_LiveCountNeverDecreases ==
    /\ LiveCount(cache) >= LiveCount(last.pre)
    /\ LiveCount(cache) <= capacity
    /\ LiveCount(cache)
        = IF /\ last.op = "Set"
             /\ last.key \notin Present(last.pre)
             /\ LiveCount(last.pre) < capacity
          THEN LiveCount(last.pre) + 1
          ELSE LiveCount(last.pre)
    /\ LiveCount(last.pre) = capacity => LiveCount(cache) = capacity

\* A Set of a new key into a cache that holds a key and is not full has just
\* returned, and the cache is now full.
C29_Witness ==
    /\ last.op = "Set"
    /\ last.key \notin Present(last.pre)
    /\ LiveCount(last.pre) >= 1
    /\ LiveCount(last.pre) < capacity
    /\ LiveCount(cache) = capacity

\* C30: Get is idempotent: when a Get(k) has just returned, a second Get(k)
\* made right after it returns the same value and the same found flag as the
\* first, and leaves the index, the elements and the recency order exactly
\* as the first call left them.
C30_GetIsIdempotent ==
    last.op = "Get" =>
        LET again == Get(cache, last.key) IN
        /\ again.value = last.ret
        /\ again.exists = last.exists
        /\ again.cache = cache

\* A Get has just hit a key that was not at the front of a queue of two or
\* more elements, and so has changed the recency order.
C30_Witness ==
    /\ last.op = "Get"
    /\ last.exists
    /\ Len(last.pre.queue) >= 2
    /\ FrontKey(last.pre) # last.key
    /\ FrontKey(cache) = last.key
    /\ cache # last.pre

\* C31: element well-formedness. In every state, inside a call or between
\* calls, each element of the list stores a cacheItem and the element the
\* index gives for a key stores a cacheItem with that key; whenever the mutex
\* is free the index maps the key of each element of the list to that very
\* element. So the element a Set or a Get is about to assert on is a
\* cacheItem with the key of the call, and after the update of Set the
\* element carries the new value under the same key.
C31_ElementWellFormed ==
    /\ \A i \in 1..Len(queue) :
        /\ queue[i] \in DOMAIN elems
        /\ IsCacheItem(cache, queue[i])
        /\ elems[queue[i]].key \in Keys
    /\ \A k \in DOMAIN items :
        /\ items[k] \in DOMAIN elems
        /\ IsCacheItem(cache, items[k])
        /\ elems[items[k]].key = k
    /\ mutex = Free =>
        \A i \in 1..Len(queue) :
            /\ elems[queue[i]].key \in DOMAIN items
            /\ items[elems[queue[i]].key] = queue[i]
    /\ \A p \in Procs :
        /\ pc[p] \in {"SetUpdate", "SetMoveToFront", "GetMoveToFront", "GetRead"}
            => /\ frame[p].item \in DOMAIN elems
               /\ frame[p].item \in Range(queue)
               /\ IsCacheItem(cache, frame[p].item)
               /\ elems[frame[p].item].key = frame[p].key
               /\ items[frame[p].key] = frame[p].item
        /\ pc[p] = "SetMoveToFront"
            => elems[frame[p].item].value = frame[p].value

\* A Set has just stored the updated cacheItem into the element of a present
\* key that is not at the front of a list of two or more elements.
C31_Witness ==
    \E p \in Procs :
        /\ pc[p] = "SetMoveToFront"
        /\ Len(queue) >= 2
        /\ Front(queue) # frame[p].item
        /\ elems[frame[p].item] = [key |-> frame[p].key, value |-> frame[p].value]

====
